---- MODULE Spec2Model ----
(***************************************************************************)
(* Model of anki2studysmarter.py: the case-transition segmenter            *)
(* (heuristic_insert_linebreaks), the sentence joiner (restore_separators) *)
(* and the record parser loop of convert_anki_to_studysmarter.             *)
(*                                                                         *)
(* A Python str is a sequence of one-character strings.  The cursor i of   *)
(* the segmenter is 0-based as in the source, so text[i] of the source is  *)
(* t[i + 1] here.                                                          *)
(***************************************************************************)
EXTENDS Integers, Sequences, FiniteSets, TLC

VARIABLES mode, pc, text, sep, cur, i, result, sentences, out,
          consumed, valid_cards, error_cards, path

vars == <<mode, pc, text, sep, cur, i, result, sentences, out,
          consumed, valid_cards, error_cards, path>>

(***************************************************************************)
(* Bounds of the model.                                                    *)
(***************************************************************************)
MaxLen == 4

MaxLineLen == 2

MaxLines == 2

(***************************************************************************)
(* Characters.                                                             *)
(***************************************************************************)
NL == "\n"

TAB == "\t"

\* str.isupper() on the characters the model draws from.
UpperChars == {"A", "B", "F", "H", "R", "W", "X"}

IsUpper(c) == c \in UpperChars

\* str.strip() without arguments and the regex class \s agree on these.
SpaceChars == {" ", TAB, NL}

IsSpace(c) == c \in SpaceChars

\* forbidden = set('"([{/-,.:; ')
forbidden == {"\"", "(", "[", "{", "/", "-", ",", ".", ":", ";", " "}

\* the character class [.!?] of the split pattern
Terminal == {".", "!", "?"}

\* The alphabet the bounded inputs are drawn from: a lowercase letter, an
\* uppercase letter, a terminal mark that is forbidden, one that is not, the
\* forbidden space, a whitespace that is not forbidden, and the line break.
Sigma == {"a", "A", ".", "!", " ", TAB, NL}

StringsUpTo(S, n) == UNION {[1..k -> S] : k \in 0..n}

\* The worked inputs of the documentation, beside the bounded ones.
Examples ==
  { <<"w","o","r","d","X","y">>,
    <<"w","o","r","l","d","W","A","R">>,
    <<"(","A",")"," ","t","e","s","t">>,
    <<"H","e","l","l","o">>,
    <<"F","o","o","."," ","B","a","r","!"," ","B","a","z","?">> }

Texts == StringsUpTo(Sigma, MaxLen) \cup Examples

Separators == { <<NL>>, <<"|">> }

(***************************************************************************)
(* heuristic_insert_linebreaks                                             *)
(***************************************************************************)
\* while j < n and text[j].isupper(): j += 1     (j is 0-based)
RECURSIVE RunEnd(_, _)
RunEnd(t, j) ==
  IF j < Len(t) /\ IsUpper(t[j + 1]) THEN RunEnd(t, j + 1) ELSE j

\* a variant that leaves out the test for the start of the string
ForbiddenContextNoStart(t, k) == k > 0 /\ t[k] \in forbidden

\* if i == 0 or text[i-1] in forbidden
ForbiddenContext(t, k) == k = 0 \/ t[k] \in forbidden

\* group_len of the uppercase block that starts at k
GroupLen(t, k) == RunEnd(t, k) - k

\* a variant with the threshold off by one
ShortGroupStrict(t, k) == GroupLen(t, k) < 2

\* if group_len <= 2
ShortGroup(t, k) == GroupLen(t, k) <= 2

\* The branch one iteration of the main loop takes at cursor k < len(text).
Branch(t, k) ==
  IF ~IsUpper(t[k + 1]) THEN "literal"
  ELSE IF ForbiddenContext(t, k) THEN "forbidden_run"
  ELSE IF ShortGroup(t, k) THEN "short_run"
  ELSE "long_run"

\* a variant whose short-run branch copies only the first letter of the block
EmitFirstOnly(t, k) ==
  IF ~IsUpper(t[k + 1]) THEN <<t[k + 1]>>
  ELSE IF ForbiddenContext(t, k) THEN SubSeq(t, k + 1, RunEnd(t, k))
  ELSE IF ShortGroup(t, k) THEN <<NL, t[k + 1]>>
  ELSE SubSeq(t, k + 1, RunEnd(t, k))

\* What the branch appends to result.
Emit(t, k) ==
  LET b == Branch(t, k)
      run == SubSeq(t, k + 1, RunEnd(t, k))
  IN  IF b = "literal" THEN <<t[k + 1]>>
      ELSE IF b = "short_run" THEN <<NL>> \o run
      ELSE run

\* a variant that steps one position past the end of an uppercase block
AdvancePastRun(t, k) ==
  IF ~IsUpper(t[k + 1]) THEN k + 1 ELSE RunEnd(t, k) + 1

\* Where the branch leaves the cursor.
Advance(t, k) ==
  IF Branch(t, k) = "literal" THEN k + 1 ELSE RunEnd(t, k)

\* The whole loop: while i < n: ...; return "".join(result)
RECURSIVE ScanLoop(_, _, _)
ScanLoop(t, k, acc) ==
  IF k < Len(t) THEN ScanLoop(t, Advance(t, k), acc \o Emit(t, k)) ELSE acc

heuristic_insert_linebreaks(t) == ScanLoop(t, 0, <<>>)

(***************************************************************************)
(* restore_separators                                                      *)
(***************************************************************************)
\* end (exclusive, 1-based) of the greedy match of \n+ that starts at p
RECURSIVE BreakRunEnd(_, _)
BreakRunEnd(t, p) ==
  IF p <= Len(t) /\ t[p] = NL THEN BreakRunEnd(t, p + 1) ELSE p

\* re.sub(r'\n+', ' ', text), scanning from position p
RECURSIVE SubFrom(_, _)
SubFrom(t, p) ==
  IF p > Len(t) THEN <<>>
  ELSE IF t[p] = NL THEN <<" ">> \o SubFrom(t, BreakRunEnd(t, p))
  ELSE <<t[p]>> \o SubFrom(t, p + 1)

\* a variant that replaces each line break by a space of its own: r'\n'
NormalizeEach(t) == [k \in 1..Len(t) |-> IF t[k] = NL THEN " " ELSE t[k]]

\* a variant that leaves the text as it is
NormalizeNothing(t) == t

\* text = re.sub(r'\n+', ' ', text)
Normalize(t) == SubFrom(t, 1)

\* end (exclusive) of the greedy match of \s+ that starts at p
RECURSIVE SpaceRunEnd(_, _)
SpaceRunEnd(t, p) ==
  IF p <= Len(t) /\ IsSpace(t[p]) THEN SpaceRunEnd(t, p + 1) ELSE p

\* a variant that splits after '!' and '?' only
MatchesAtNoPeriod(t, p) ==
  p >= 2 /\ p <= Len(t) /\ t[p - 1] \in {"!", "?"} /\ IsSpace(t[p])

\* (?<=[.!?])\s+ matches at p: the character before p is terminal and p is
\* whitespace
MatchesAt(t, p) == p >= 2 /\ p <= Len(t) /\ t[p - 1] \in Terminal /\ IsSpace(t[p])

\* first position >= p where the pattern matches, or 0
RECURSIVE NextMatch(_, _)
NextMatch(t, p) ==
  IF p > Len(t) THEN 0
  ELSE IF MatchesAt(t, p) THEN p
  ELSE NextMatch(t, p + 1)

\* re.split(pattern, text): the pieces from position s on
RECURSIVE SplitFrom(_, _)
SplitFrom(t, s) ==
  LET m == NextMatch(t, s)
  IN  IF m = 0 THEN <<SubSeq(t, s, Len(t))>>
      ELSE <<SubSeq(t, s, m - 1)>> \o SplitFrom(t, SpaceRunEnd(t, m))

ReSplit(t) == SplitFrom(t, 1)

\* str.lstrip() / str.rstrip() / str.strip()
RECURSIVE LStrip(_)
LStrip(s) == IF s # <<>> /\ IsSpace(Head(s)) THEN LStrip(Tail(s)) ELSE s

RECURSIVE RStrip(_)
RStrip(s) ==
  IF s # <<>> /\ IsSpace(s[Len(s)]) THEN RStrip(SubSeq(s, 1, Len(s) - 1)) ELSE s

Strip(s) == RStrip(LStrip(s))

\* a variant that trims but keeps the empty candidates
StripKeepEmpty(ss) == [k \in 1..Len(ss) |-> Strip(ss[k])]

\* [s.strip() for s in sentences if s.strip()]
RECURSIVE StripFilter(_)
StripFilter(ss) ==
  IF ss = <<>> THEN <<>>
  ELSE IF Strip(Head(ss)) # <<>> THEN <<Strip(Head(ss))>> \o StripFilter(Tail(ss))
  ELSE StripFilter(Tail(ss))

\* separator.join(sentences)
RECURSIVE Join(_, _)
Join(s, ss) ==
  IF ss = <<>> THEN <<>>
  ELSE IF Len(ss) = 1 THEN ss[1]
  ELSE ss[1] \o s \o Join(s, Tail(ss))

restore_separators(t, s) ==
  Join(s, StripFilter(ReSplit(heuristic_insert_linebreaks(Normalize(t)))))

(***************************************************************************)
(* convert_anki_to_studysmarter: the record parser                         *)
(***************************************************************************)
Sentinel ==
  <<"V","e","r","d","e","c","k","u","n","g","e","n"," ","e","i","n","/","a","u","s">>

\* a variant that strips spaces and the line terminator but not tabs
StripLineKeepTabs(l) ==
  LET keep == {k \in 1..Len(l) : l[k] \notin {" ", NL}}
  IN  IF keep = {} THEN <<>>
      ELSE SubSeq(l, CHOOSE a \in keep : \A b \in keep : a <= b,
                     CHOOSE a \in keep : \A b \in keep : a >= b)

\* line = line.strip()
StripLine(l) == Strip(l)

\* a variant that does not know the sentinel line
SkippedNoSentinel(l) == l = <<>> \/ (Len(l) >= 1 /\ l[1] = "#")

\* not line or line.startswith('#') or line == "Verdeckungen ein/aus"
Skipped(l) == l = <<>> \/ (Len(l) >= 1 /\ l[1] = "#") \/ l = Sentinel

\* '\t' in line
HasTab(l) == \E k \in 1..Len(l) : l[k] = TAB

\* index of the first tab of a line that has one
FirstTab(l) == CHOOSE k \in 1..Len(l) : l[k] = TAB /\ \A q \in 1..(k - 1) : l[q] # TAB

\* parts = line.split('\t', 1); question = parts[0].strip()
Question(l) == Strip(SubSeq(l, 1, FirstTab(l) - 1))

\* answer = parts[1].strip() if len(parts) > 1 else ''
Answer(l) == Strip(SubSeq(l, FirstTab(l) + 1, Len(l)))

\* The characters the bounded lines are drawn from: a letter, the tab, a space.
LineSigma == {"q", TAB, " "}

\* Lines longer than the bound that exercise every path of the parser.
LineExamples ==
  { <<"q", TAB, "q">>,
    <<"q", " ", TAB, " ", "a", "A">>,
    <<"q", TAB, TAB, "q">>,
    <<" ", "q", TAB, "a", ".", " ", "a", " ">>,
    <<"#">>,
    <<" ", "#", "q">>,
    <<"#", "q", TAB, "q">>,
    <<"q", "#", TAB, "#">>,
    Sentinel,
    <<" ">> \o Sentinel \o <<TAB>>,
    Sentinel \o <<"q">> }

\* A line as the file iterator yields it: its content and the line terminator.
Lines == {l \o <<NL>> : l \in StringsUpTo(LineSigma, MaxLineLen) \cup LineExamples}

(***************************************************************************)
(* Initial states: one call of each entry point.                           *)
(***************************************************************************)
InitSegment ==
  /\ mode = "segment" /\ pc = "scan"
  /\ text \in Texts /\ cur = text /\ sep = <<>>
  /\ i = 0 /\ result = <<>> /\ sentences = <<>> /\ out = <<>>
  /\ consumed = <<>> /\ valid_cards = <<>> /\ error_cards = <<>> /\ path = "none"

InitRestore ==
  /\ mode = "restore" /\ pc = "normalize"
  /\ text \in Texts /\ cur = text /\ sep \in Separators
  /\ i = 0 /\ result = <<>> /\ sentences = <<>> /\ out = <<>>
  /\ consumed = <<>> /\ valid_cards = <<>> /\ error_cards = <<>> /\ path = "none"

InitConvert ==
  /\ mode = "convert" /\ pc = "read"
  /\ text = <<>> /\ cur = <<>> /\ sep = <<>>
  /\ i = 0 /\ result = <<>> /\ sentences = <<>> /\ out = <<>>
  /\ consumed = <<>> /\ valid_cards = <<>> /\ error_cards = <<>> /\ path = "none"

Init == InitSegment \/ InitRestore \/ InitConvert

convertVars == <<consumed, valid_cards, error_cards, path>>

(***************************************************************************)
(* restore_separators, stage by stage.                                     *)
(***************************************************************************)
\* text = re.sub(r'\n+', ' ', text); the call of the segmenter follows
NormalizeStage ==
  /\ mode = "restore" /\ pc = "normalize"
  /\ cur' = Normalize(text)
  /\ i' = 0 /\ result' = <<>>
  /\ pc' = "scan"
  /\ UNCHANGED <<mode, text, sep, sentences, out, convertVars>>

\* The body of one iteration of the main loop: the branch appends to result
\* and moves the cursor.
LoopBody ==
  /\ result' = result \o Emit(cur, i)
  /\ i' = Advance(cur, i)
  /\ UNCHANGED <<mode, pc, text, sep, cur, sentences, out, convertVars>>

\* else: result.append(char); i += 1
CopyLiteral ==
  /\ pc = "scan" /\ i < Len(cur)
  /\ Branch(cur, i) = "literal"
  /\ LoopBody

\* if i == 0 or text[i-1] in forbidden: copy the block, i = j
CopyForbiddenRun ==
  /\ pc = "scan" /\ i < Len(cur)
  /\ Branch(cur, i) = "forbidden_run"
  /\ LoopBody

\* if group_len <= 2: result.append("\n"), copy the block
InsertBreakThenCopyRun ==
  /\ pc = "scan" /\ i < Len(cur)
  /\ Branch(cur, i) = "short_run"
  /\ LoopBody

\* else: copy the block
CopyLongRun ==
  /\ pc = "scan" /\ i < Len(cur)
  /\ Branch(cur, i) = "long_run"
  /\ LoopBody

\* the loop condition fails: return "".join(result)
ScanReturn ==
  /\ pc = "scan"
  /\ ~(i < Len(cur))
  /\ IF mode = "segment"
       THEN /\ out' = result
            /\ pc' = "done"
            /\ UNCHANGED cur
       ELSE /\ cur' = result
            /\ pc' = "split"
            /\ UNCHANGED out
  /\ UNCHANGED <<mode, text, sep, i, result, sentences, convertVars>>

\* sentences = re.split(r'(?<=[.!?])\s+', text)
SplitStage ==
  /\ pc = "split"
  /\ sentences' = ReSplit(cur)
  /\ pc' = "filter"
  /\ UNCHANGED <<mode, text, sep, cur, i, result, out, convertVars>>

\* sentences = [s.strip() for s in sentences if s.strip()]
FilterStage ==
  /\ pc = "filter"
  /\ sentences' = StripFilter(sentences)
  /\ pc' = "join"
  /\ UNCHANGED <<mode, text, sep, cur, i, result, out, convertVars>>

\* return separator.join(sentences)
JoinStage ==
  /\ pc = "join"
  /\ out' = Join(sep, sentences)
  /\ pc' = "done"
  /\ UNCHANGED <<mode, text, sep, cur, i, result, sentences, convertVars>>

(***************************************************************************)
(* convert_anki_to_studysmarter: one iteration of the for loop per line.   *)
(***************************************************************************)
coreVars == <<mode, text, sep, cur, i, result, sentences, out>>

\* if not line or line.startswith('#') or line == sentinel: continue
SkipLine ==
  /\ mode = "convert" /\ pc = "read" /\ Len(consumed) < MaxLines
  /\ \E raw \in Lines :
       LET line == StripLine(raw)
       IN  /\ Skipped(line)
           /\ consumed' = Append(consumed, raw)
           /\ path' = "skipped"
           /\ UNCHANGED <<valid_cards, error_cards>>
  /\ UNCHANGED <<pc, coreVars>>

\* if '\t' not in line: error_cards.append(line); continue
RejectNoTab ==
  /\ mode = "convert" /\ pc = "read" /\ Len(consumed) < MaxLines
  /\ \E raw \in Lines :
       LET line == StripLine(raw)
       IN  /\ ~Skipped(line)
           /\ ~HasTab(line)
           /\ consumed' = Append(consumed, raw)
           /\ error_cards' = Append(error_cards, line)
           /\ path' = "no_tab"
           /\ UNCHANGED valid_cards
  /\ UNCHANGED <<pc, coreVars>>

\* split at the first tab; a missing answer goes to the error list, any other
\* record is restored and appended to the valid list
SplitRecord ==
  /\ mode = "convert" /\ pc = "read" /\ Len(consumed) < MaxLines
  /\ \E raw \in Lines :
       LET line == StripLine(raw)
       IN  /\ ~Skipped(line)
           /\ HasTab(line)
           /\ consumed' = Append(consumed, raw)
           /\ IF Answer(line) = <<>>
                THEN /\ error_cards' = Append(error_cards, Question(line))
                     /\ path' = "answer_missing"
                     /\ UNCHANGED valid_cards
                ELSE /\ valid_cards' =
                          Append(valid_cards,
                                 <<Question(line),
                                   restore_separators(Answer(line), <<NL>>),
                                   "TRUE">>)
                     /\ path' = "accepted"
                     /\ UNCHANGED error_cards
  /\ UNCHANGED <<pc, coreVars>>

\* the file is exhausted: the two lists go to the workbook
EndOfFile ==
  /\ mode = "convert" /\ pc = "read"
  /\ pc' = "done"
  /\ UNCHANGED <<coreVars, convertVars>>

Next ==
  \/ NormalizeStage
  \/ CopyLiteral
  \/ CopyForbiddenRun
  \/ InsertBreakThenCopyRun
  \/ CopyLongRun
  \/ ScanReturn
  \/ SplitStage
  \/ FilterStage
  \/ JoinStage
  \/ SkipLine
  \/ RejectNoTab
  \/ SplitRecord
  \/ EndOfFile

Spec == Init /\ [][Next]_vars

\* One call of heuristic_insert_linebreaks on its own: the interpreter keeps
\* executing the loop while it has a next step.
ScanNext ==
  \/ CopyLiteral
  \/ CopyForbiddenRun
  \/ InsertBreakThenCopyRun
  \/ CopyLongRun
  \/ ScanReturn

ScanSpec == InitSegment /\ [][ScanNext]_vars /\ WF_vars(ScanNext)

(***************************************************************************)
(* Properties.  The helper definitions below restate what the               *)
(* documentation promises position by position, without the cursor.        *)
(***************************************************************************)
NoBreak(s) == \A k \in 1..Len(s) : s[k] # NL

NoUpper(s) == \A k \in 1..Len(s) : ~IsUpper(s[k])

\* position k (1-based) starts a maximal uppercase run
RunStart(t, k) ==
  /\ k \in 1..Len(t)
  /\ IsUpper(t[k])
  /\ (k = 1 \/ ~IsUpper(t[k - 1]))

\* length of the maximal uppercase run that starts at k
MaximalRunLen(t, k) ==
  CHOOSE n \in 1..(Len(t) - k + 1) :
    /\ \A q \in k..(k + n - 1) : IsUpper(t[q])
    /\ (k + n > Len(t) \/ ~IsUpper(t[k + n]))

\* a break belongs immediately before position k
BreakBefore(t, k) ==
  /\ RunStart(t, k)
  /\ k > 1
  /\ t[k - 1] \notin forbidden
  /\ MaximalRunLen(t, k) \in {1, 2}

\* the first n characters of t, each preceded by a break where one belongs
RECURSIVE Segmented(_, _)
Segmented(t, n) ==
  IF n = 0 THEN <<>>
  ELSE Segmented(t, n - 1) \o (IF BreakBefore(t, n) THEN <<NL, t[n]>> ELSE <<t[n]>>)

C8_NoLeadingBreak ==
  /\ (pc = "scan" /\ i > 0) => (result # <<>> /\ result[1] = cur[1])
  /\ (mode = "segment" /\ pc = "done" /\ text # <<>>) =>
       (out # <<>> /\ out[1] = text[1])
  /\ (mode = "segment" /\ pc = "done" /\ text = <<"H","e","l","l","o">>) =>
       SubSeq(out, 1, 5) = text

C8_Witness ==
  /\ mode = "segment" /\ pc = "done"
  /\ text = <<"A", "a">>
  /\ out = <<"A", "a">>

NonSpace(c) == ~IsSpace(c)

\* the non-whitespace characters of s, in order
Content(s) == SelectSeq(s, NonSpace)

OnlySpace(s) == \A k \in 1..Len(s) : IsSpace(s[k])

\* o is s with break characters inserted and nothing else changed
RECURSIVE OnlyBreaksInserted(_, _)
OnlyBreaksInserted(o, s) ==
  IF o = <<>> THEN s = <<>>
  ELSE IF s # <<>> /\ o[1] = s[1] THEN OnlyBreaksInserted(Tail(o), Tail(s))
  ELSE o[1] = NL /\ OnlyBreaksInserted(Tail(o), s)

\* C3: content preservation.  heuristic_insert_linebreaks(s) is s with only
\* break characters inserted, so its non-whitespace characters are those of
\* s in the same order; with a separator made of break/space characters the
\* same holds of restore_separators(s, separator).
C3_ContentPreserved ==
  /\ (mode = "segment" /\ pc = "done") =>
       /\ Content(out) = Content(text)
       /\ Len(out) >= Len(text)
       /\ OnlyBreaksInserted(out, text)
  /\ (mode = "restore" /\ pc = "done" /\ OnlySpace(sep)) =>
       Content(out) = Content(text)

C3_Witness ==
  /\ mode = "restore" /\ pc = "done"
  /\ sep = <<NL>>
  /\ text = <<"a", NL, "a", "A">>
  /\ out = <<"a", " ", "a", NL, "A">>

\* the stages of restore_separators in the order the source runs them
StageOrder ==
  { <<"normalize", "scan">>, <<"scan", "split">>, <<"split", "filter">>,
    <<"filter", "join">>, <<"join", "done">> }

\* position k starts a maximal sequence of line breaks
BreakStart(t, k) == t[k] = NL /\ (k = 1 \/ t[k - 1] # NL)

\* where the character at k lands once every such sequence is one space
Image(t, k) ==
  k - Cardinality({q \in 1..(k - 1) : t[q] = NL})
    + Cardinality({q \in 1..(k - 1) : BreakStart(t, q)})

\* c is t with every maximal sequence of line breaks replaced by one space
Collapsed(t, c) ==
  /\ Len(c) = Len(t) - Cardinality({q \in 1..Len(t) : t[q] = NL})
                     + Cardinality({q \in 1..Len(t) : BreakStart(t, q)})
  /\ \A k \in 1..Len(t) :
       /\ t[k] # NL => c[Image(t, k)] = t[k]
       /\ BreakStart(t, k) => c[Image(t, k)] = " "

\* the segmenter runs on a string without line breaks, the input with its
\* break sequences collapsed; afterwards every break stands where the
\* segmenter puts one
C9_State ==
  /\ (mode = "restore" /\ pc = "scan") =>
       /\ NoBreak(cur)
       /\ Collapsed(text, cur)
       /\ sentences = <<>> /\ out = <<>>
  /\ (mode = "restore" /\ pc \in {"split", "filter", "join", "done"}) =>
       /\ \A k \in 1..Len(cur) :
            cur[k] = NL => (k < Len(cur) /\ IsUpper(cur[k + 1]) /\ k > 1 /\ cur[k - 1] # NL)
       /\ \E c \in {Normalize(text)} :
            /\ Collapsed(text, c)
            /\ Cardinality({k \in 1..Len(cur) : cur[k] = NL})
                 = Cardinality({k \in 1..Len(c) : BreakBefore(c, k)})

StepLength(t, k) == IF IsUpper(t[k + 1]) THEN MaximalRunLen(t, k + 1) ELSE 1

\* C6: the scan is total and terminates: every iteration of the main loop
\* strictly increases the cursor (by one for a non-uppercase character, by
\* the run length for an uppercase run), the cursor never exceeds len(text),
\* and the loop ends with i = len(text).
C6_ScanTerminates ==
  /\ [][pc = "scan" =>
          \/ /\ i < Len(cur)
             /\ pc' = "scan"
             /\ i' = i + StepLength(cur, i)
             /\ i' > i /\ i' <= Len(cur)
          \/ /\ i = Len(cur)
             /\ pc' # "scan"
             /\ i' = i]_vars
  /\ (pc = "scan") ~> (pc \in {"split", "done"})

C6_Witness ==
  /\ mode = "segment" /\ pc = "done"
  /\ text = <<"A", "A", "A", "A">>
  /\ i = Len(text)
  /\ out = text

\* position k of t is whitespace consumed by a split: it lies in a sequence
\* of whitespace that starts right after a terminal mark
Consumed(t, k) ==
  /\ IsSpace(t[k])
  /\ \E p \in 1..(k - 1) :
       /\ t[p] \in Terminal
       /\ \A q \in (p + 1)..k : IsSpace(t[q])

\* [a, b] is a maximal interval of positions of t that no split consumes
Piece(t, a, b) ==
  /\ a <= b
  /\ \A k \in a..b : ~Consumed(t, k)
  /\ (a = 1 \/ Consumed(t, a - 1))
  /\ (b = Len(t) \/ Consumed(t, b + 1))

\* the positions of s[a..b] left once whitespace is trimmed from both ends
Inner(t, a, b) == {k \in a..b : ~IsSpace(t[k])}

Min(S) == CHOOSE x \in S : \A y \in S : x <= y

Max(S) == CHOOSE x \in S : \A y \in S : x >= y

\* the trimmed, non-empty pieces of t that start at position a or later, in
\* text order
RECURSIVE SentencesFrom(_, _)
SentencesFrom(t, a) ==
  IF a > Len(t) THEN <<>>
  ELSE IF \E b \in a..Len(t) : Piece(t, a, b)
    THEN LET b == CHOOSE x \in a..Len(t) : Piece(t, a, x)
             inner == Inner(t, a, b)
         IN  (IF inner = {} THEN <<>> ELSE <<SubSeq(t, Min(inner), Max(inner))>>)
               \o SentencesFrom(t, b + 1)
    ELSE SentencesFrom(t, a + 1)

\* ss joined by sep, written out position by position
RECURSIVE Joined(_, _, _)
Joined(ss, s, n) ==
  IF n = 0 THEN <<>>
  ELSE IF n = 1 THEN ss[1]
  ELSE Joined(ss, s, n - 1) \o s \o ss[n]

C5_NoEmptyCandidate ==
  /\ (mode = "restore" /\ pc \in {"join", "done"}) =>
       \A k \in 1..Len(sentences) :
          /\ sentences[k] # <<>>
          /\ ~IsSpace(sentences[k][1])
          /\ ~IsSpace(sentences[k][Len(sentences[k])])
  /\ (mode = "restore" /\ pc = "done") =>
       /\ OnlySpace(text) => out = <<>>
       /\ sep = <<"|">> =>
            /\ out = <<>> \/ (out[1] # "|" /\ out[Len(out)] # "|")
            /\ \A k \in 1..(Len(out) - 1) : ~(out[k] = "|" /\ out[k + 1] = "|")
            /\ Cardinality({k \in 1..Len(out) : out[k] = "|"})
                 = (IF sentences = <<>> THEN 0 ELSE Len(sentences) - 1)

C5_Witness ==
  /\ mode = "restore" /\ pc = "done"
  /\ sep = <<"|">>
  /\ text = <<" ", "a", ".", " ">>
  /\ out = <<"a", ".">>

\* the breaks of s that the segmenter inserts: each stands strictly inside s,
\* right after a character that is neither forbidden nor a break and right
\* before an uppercase run of length 1 or 2
OnlySegmenterBreaks(s) ==
  \A k \in 1..Len(s) :
    s[k] = NL =>
      /\ 1 < k /\ k < Len(s)
      /\ s[k - 1] \notin forbidden
      /\ s[k - 1] # NL
      /\ RunStart(s, k + 1)
      /\ MaximalRunLen(s, k + 1) \in {1, 2}

\* C2 as stated: the result of restore_separators holds no line break other
\* than those of the separator placed between two joined sentences; with a
\* separator that holds no line break it holds none at all.
C2_NoBreakButSeparator ==
  (mode = "restore" /\ pc = "done") =>
    /\ \A k \in 1..Len(sentences) : NoBreak(sentences[k])
    /\ NoBreak(sep) => NoBreak(out)

\* C2, amended: the result of restore_separators holds no line break other
\* than those of the separator placed between two joined sentences and those
\* the segmenter inserted inside a sentence, each right before an uppercase
\* run of length 1 or 2 whose predecessor is not a forbidden character; no
\* line break of the input survives.
C2_OnlySeparatorOrSegmenterBreaks ==
  (mode = "restore" /\ pc = "done") =>
    /\ out = Joined(sentences, sep, Len(sentences))
    /\ \A k \in 1..Len(sentences) : OnlySegmenterBreaks(sentences[k])
    /\ NoBreak(sep) => OnlySegmenterBreaks(out)
    /\ NoUpper(text) => \A k \in 1..Len(sentences) : NoBreak(sentences[k])

C2_Witness ==
  /\ mode = "restore" /\ pc = "done"
  /\ sep = <<"|">>
  /\ text = <<"a", NL, "a", "A">>
  /\ out = <<"a", " ", "a", NL, "A">>

\* l without its leading and trailing whitespace, by position
Trimmed(l) ==
  LET inner == Inner(l, 1, Len(l))
  IN  IF inner = {} THEN <<>> ELSE SubSeq(l, Min(inner), Max(inner))

TabPositions(l) == {k \in 1..Len(l) : l[k] = TAB}

BeforeTab(l) == SubSeq(l, 1, Min(TabPositions(l)) - 1)

AfterTab(l) == SubSeq(l, Min(TabPositions(l)) + 1, Len(l))

\* the one outcome of a line of the input
Outcome(raw) ==
  LET l == Trimmed(raw)
  IN  IF l = <<>> \/ l[1] = "#" \/ l = Sentinel THEN "skipped"
      ELSE IF TabPositions(l) = {} THEN "rejected"
      ELSE IF Trimmed(AfterTab(l)) = <<>> THEN "rejected"
      ELSE "accepted"

\* the records of the first n lines that are accepted, in line order
RECURSIVE AcceptedOf(_, _)
AcceptedOf(ls, n) ==
  IF n = 0 THEN <<>>
  ELSE LET l == Trimmed(ls[n])
       IN  AcceptedOf(ls, n - 1) \o
             (IF Outcome(ls[n]) = "accepted"
                THEN << <<Trimmed(BeforeTab(l)),
                          restore_separators(Trimmed(AfterTab(l)), <<NL>>),
                          "TRUE">> >>
                ELSE <<>>)

\* the entries of the first n lines that are rejected, in line order
RECURSIVE RejectedOf(_, _)
RejectedOf(ls, n) ==
  IF n = 0 THEN <<>>
  ELSE LET l == Trimmed(ls[n])
       IN  RejectedOf(ls, n - 1) \o
             (IF Outcome(ls[n]) = "rejected"
                THEN <<IF TabPositions(l) = {} THEN l ELSE Trimmed(BeforeTab(l))>>
                ELSE <<>>)

C10_AnswerMissingUnreachable ==
  mode = "convert" =>
    /\ path # "answer_missing"
    /\ \A k \in 1..Len(consumed) :
         LET l == StripLine(consumed[k])
         IN  /\ HasTab(l) => (Question(l) # <<>> /\ Answer(l) # <<>>)
             /\ (HasTab(l) /\ ~Skipped(l)) => Outcome(consumed[k]) = "accepted"
    /\ \A k \in 1..Len(valid_cards) :
         valid_cards[k][1] # <<>> /\ valid_cards[k][2] # <<>>
    /\ (consumed # <<>> /\ consumed[Len(consumed)] = <<"q", TAB, NL>>) =>
         (path = "no_tab" /\ error_cards[Len(error_cards)] = <<"q">>)

C10_Witness ==
  /\ mode = "convert"
  /\ consumed = << <<"q", TAB, NL>> >>
  /\ path = "no_tab"
  /\ error_cards = << <<"q">> >>
  /\ valid_cards = <<>>

====
